---- MODULE Spec2Model ----
(***************************************************************************)
(* A model of odtp-shacl-maker: the batch program shacl-maker.py (one     *)
(* directory per run, two module-level graphs) and the single-file        *)
(* program main.py (one file per run, one module-level graph).            *)
(*                                                                         *)
(* Strings the code takes apart (paths for quote, label strings for       *)
(* split) are sequences of one-character strings; every other string is a *)
(* sequence of tokens, so that "+" of the code is \o of the model.        *)
(***************************************************************************)
EXTENDS Naturals, Sequences, FiniteSets, TLC

\* Bounds of the model.
MaxRuns == 2
MaxSources == 2
MaxEvents == 2

(***************************************************************************)
(* Input universe                                                          *)
(***************************************************************************)
ODTP == <<"https://odtp.example.org/components/data/">>

Paths == { <<"d", "/", "f">>, <<"m", " ", "f">> }
VariableNames == { <<"x">>, <<"y">> }
FileDescription == <<"fd">>
VariableDescription == <<"vd">>
VariableExample == <<"5">>

\* the variables of one file have one type here; those of the other, another
TypeOf(p) == IF p = <<"d", "/", "f">> THEN <<"xsd:float">> ELSE <<"xsd:int">>

\* variable_alternative_labels of a CSV cell: "" and "a,a, b"
CsvLabels == { << >>, <<"a", ",", "a", ",", " ", "b">> }

CsvKeys == {"file_relative_path", "file_description", "variable_name", "variable_alternative_labels", "variable_description", "variable_value_example", "variable_type"}
VariableKeys == CsvKeys \ {"file_relative_path", "file_description"}

CsvRow(p, v, l) ==
    [file_relative_path |-> p, file_description |-> FileDescription,
     variable_name |-> v, variable_alternative_labels |-> l,
     variable_description |-> VariableDescription,
     variable_value_example |-> VariableExample, variable_type |-> TypeOf(p)]

CsvRows == { CsvRow(p, v, l) : p \in Paths, v \in VariableNames, l \in CsvLabels }

\* a row of a CSV file whose header lacks the variable_type column
BadCsvRows ==
    { [k \in CsvKeys \ {"variable_type"} |-> CsvRow(<<"d", "/", "f">>, <<"x">>, << >>)[k]] }

\* variable_alternative_labels of a YAML variable: a sequence, or one string
LabelList == [isList |-> TRUE, list |-> << <<"a">>, <<"b">> >>, str |-> << >>]
LabelString == [isList |-> FALSE, list |-> << >>, str |-> <<"a", ",", "b">>]

YmlVariable(v, l) ==
    [variable_name |-> v, variable_alternative_labels |-> l,
     variable_description |-> VariableDescription,
     variable_value_example |-> VariableExample,
     variable_type |-> <<"xsd:float">>]

\* a variable entry without its variable_type key
BadYmlVariables ==
    { [k \in VariableKeys \ {"variable_type"} |-> YmlVariable(<<"x">>, LabelList)[k]] }

\* the variables sequences of a file entry: none, one, two
YmlVariableLists ==
    { << >>,
      << YmlVariable(<<"x">>, LabelList) >>,
      << YmlVariable(<<"x">>, LabelList), YmlVariable(<<"y">>, LabelString) >> }

\* file entries; also one with a variable given twice, one whose second
\* variable is malformed, and one without a variables key
YmlEntries ==
    { [file_relative_path |-> p, file_description |-> FileDescription,
       variables |-> vs] : p \in Paths, vs \in YmlVariableLists }
      \cup { [file_relative_path |-> <<"d", "/", "f">>,
              file_description |-> FileDescription,
              variables |-> << YmlVariable(<<"x">>, LabelList),
                               YmlVariable(<<"x">>, LabelList) >>] }
      \cup { [file_relative_path |-> <<"d", "/", "f">>,
              file_description |-> FileDescription,
              variables |-> << YmlVariable(<<"y">>, LabelString), b >>] :
             b \in BadYmlVariables }
      \cup { [file_relative_path |-> <<"d", "/", "f">>,
              file_description |-> FileDescription] }

\* a file entry without its file_description key
BadYmlEntries == { [file_relative_path |-> <<"d", "/", "f">>, variables |-> << >>] }

(***************************************************************************)
(* Terms, triples, and the library functions the code calls               *)
(***************************************************************************)
Uri(s) == [k |-> "uri", v |-> s]
Lit(s) == [k |-> "literal", v |-> s]
LitString(s) == [k |-> "xsd:string", v |-> s]
Triple(s, p, o) == [s |-> s, p |-> p, o |-> o]

\* urllib.parse.quote: letters, digits, "_.-~" and "/" are kept
QuoteSafe == {"d", "f", "m", "x", "y", "a", "b", "/", "_", ".", "-", "~"}
QuoteChar(c) ==
    IF c \in QuoteSafe THEN <<c>>
    ELSE IF c = " " THEN <<"%", "2", "0">>
    ELSE IF c = "%" THEN <<"%", "2", "5">>
    ELSE <<"%", "?", "?">>

RECURSIVE quote(_)
quote(s) == IF s = << >> THEN << >> ELSE QuoteChar(Head(s)) \o quote(Tail(s))

\* str.split(","): the substrings between the commas; "" gives [""]
RECURSIVE split(_)
split(s) ==
    IF \A i \in 1..Len(s) : s[i] # ","
    THEN <<s>>
    ELSE LET i == CHOOSE j \in 1..Len(s) :
                     s[j] = "," /\ \A h \in 1..(j - 1) : s[h] # ","
         IN  <<SubSeq(s, 1, i - 1)>> \o split(SubSeq(s, i + 1, Len(s)))

Range(q) == { q[i] : i \in 1..Len(q) }

\* a dict with no key
EmptyDict == [p \in {} |-> {}]

\* dict.update: the keys of other replace those of d
DictUpdate(d, other) ==
    [p \in DOMAIN d \cup DOMAIN other |->
        IF p \in DOMAIN other THEN other[p] ELSE d[p]]

(***************************************************************************)
(* shacl-maker.py: the pure parts                                          *)
(***************************************************************************)
\* the SKOS.altLabel literals create_triples adds, one per add call, in order;
\* labels is [isList, list, str]: a list of strings, or one string
altlabel_calls(labels) ==
    IF labels.isList
    THEN [i \in 1..Len(labels.list) |-> Lit(labels.list[i])]
    ELSE << Lit(labels.str) >>

\* the arguments of the shapes_graph.add calls of one create_triples call
added_triples(file_relative_path, file_description, variable_name, variable_alternative_labels, variable_description, variable_value_example, variable_type) ==
    LET file_uri == ODTP \o quote(file_relative_path)
        variable_uri == ODTP \o variable_name \o <<"Shape">>
    IN  { Triple(file_uri, "rdf:type", Uri(<<"sh:NodeShape">>)),
          Triple(file_uri, "rdfs:subClassOf", Uri(ODTP \o <<"File">>)),
          Triple(file_uri, "sh:targetNode", Uri(file_uri)),
          Triple(file_uri, "sh:description", LitString(file_description)),
          Triple(variable_uri, "rdf:type", Uri(<<"sh:PropertyShape">>)),
          Triple(variable_uri, "sh:datatype", Uri(variable_type)),
          Triple(variable_uri, "sh:description", LitString(variable_description)),
          Triple(variable_uri, "sh:name", Lit(variable_name)),
          Triple(variable_uri, "sh:path", Uri(ODTP \o variable_name)),
          Triple(variable_uri, "skos:example", Lit(variable_value_example)) }
        \cup
        { Triple(variable_uri, "skos:altLabel", label) :
            label \in Range(altlabel_calls(variable_alternative_labels)) }

\* shapes_graph.add keeps what the graph holds and adds to it
create_triples_overwrite(file_relative_path, file_description, variable_name, variable_alternative_labels, variable_description, variable_value_example, variable_type, shapes_graph) ==
    { t \in shapes_graph : t.s # ODTP \o variable_name \o <<"Shape">> } \cup
    added_triples(file_relative_path, file_description, variable_name,
                  variable_alternative_labels, variable_description,
                  variable_value_example, variable_type)

create_triples(file_relative_path, file_description, variable_name, variable_alternative_labels, variable_description, variable_value_example, variable_type, shapes_graph) ==
    shapes_graph \cup
    added_triples(file_relative_path, file_description, variable_name,
                  variable_alternative_labels, variable_description,
                  variable_value_example, variable_type)

\* if file_relative_path not in files_variables: files_variables[...] = set()
ensure_key_reset(fv, path) ==
    [p \in DOMAIN fv \cup {path} |-> IF p = path THEN {} ELSE fv[p]]

ensure_key(fv, path) ==
    IF path \in DOMAIN fv THEN fv
    ELSE [p \in DOMAIN fv \cup {path} |-> IF p = path THEN {} ELSE fv[p]]

\* files_variables[file_relative_path].add(variable_name)
add_variable(fv, path, name) == [fv EXCEPT ![path] = @ \cup {name}]

Outcome(raised, fv, graph, added, labels) ==
    [raised |-> raised, files_variables |-> fv, graph |-> graph,
     added |-> added, labels |-> labels]

\* row["variable_alternative_labels"].split(",") if row[...] else []
csv_labels(cell) ==
    [isList |-> TRUE, list |-> IF cell # << >> THEN split(cell) ELSE << >>,
     str |-> << >>]

\* one iteration of the loop over the rows of a CSV file
csv_row(row, fv, graph) ==
    IF ~(CsvKeys \subseteq DOMAIN row)
    THEN Outcome("KeyError", fv, graph, {}, << >>)
    ELSE LET labels == csv_labels(row.variable_alternative_labels)
         IN  Outcome("none",
                 add_variable(ensure_key(fv, row.file_relative_path),
                              row.file_relative_path, row.variable_name),
                 create_triples(row.file_relative_path, row.file_description,
                     row.variable_name, labels, row.variable_description,
                     row.variable_value_example, row.variable_type, graph),
                 added_triples(row.file_relative_path, row.file_description,
                     row.variable_name, labels, row.variable_description,
                     row.variable_value_example, row.variable_type),
                 altlabel_calls(labels))

\* the loop over the variables of one file entry of a YAML section
RECURSIVE yml_variables(_, _, _, _, _, _, _)
yml_variables(vlist, path, desc, fv, graph, added, labels) ==
    IF vlist = << >> THEN Outcome("none", fv, graph, added, labels)
    ELSE LET variable == Head(vlist)
         IN  IF ~(VariableKeys \subseteq DOMAIN variable)
             THEN Outcome("KeyError", fv, graph, added, labels)
             ELSE yml_variables(Tail(vlist), path, desc,
                     add_variable(fv, path, variable.variable_name),
                     create_triples(path, desc, variable.variable_name,
                         variable.variable_alternative_labels,
                         variable.variable_description,
                         variable.variable_value_example,
                         variable.variable_type, graph),
                     added \cup added_triples(path, desc, variable.variable_name,
                         variable.variable_alternative_labels,
                         variable.variable_description,
                         variable.variable_value_example,
                         variable.variable_type),
                     labels \o altlabel_calls(variable.variable_alternative_labels))

\* entry.get("variables", [])
entry_variables(entry) ==
    IF "variables" \in DOMAIN entry THEN entry.variables ELSE << >>

\* one iteration of the loop over the file entries of a YAML section
yml_entry(entry, fv, graph) ==
    IF ~({"file_relative_path", "file_description"} \subseteq DOMAIN entry)
    THEN Outcome("KeyError", fv, graph, {}, << >>)
    ELSE yml_variables(entry_variables(entry), entry.file_relative_path,
                       entry.file_description,
                       ensure_key(fv, entry.file_relative_path), graph, {}, << >>)

\* the elements of a set in the order the iteration visits them (unspecified)
RECURSIVE SetToSeq(_)
SetToSeq(S) ==
    IF S = {} THEN << >>
    ELSE LET e == CHOOSE x \in S : TRUE IN <<e>> \o SetToSeq(S \ {e})

\* and_string: one blank node, sh:hasValue <ODTP + item>, per item of the set
and_items_last(items) ==
    IF items = {} THEN << >> ELSE << ODTP \o (CHOOSE x \in items : TRUE) >>

and_items(items) ==
    LET q == SetToSeq(items) IN [i \in 1..Len(q) |-> ODTP \o q[i]]

\* "<ODTP + var> sh:and ( ... ) ." for every key of the dict
and_builder(variables) ==
    LET keys == SetToSeq(DOMAIN variables)
    IN  [i \in 1..Len(keys) |->
            [subject |-> ODTP \o keys[i], items |-> and_items(variables[keys[i]])]]

\* the key-wise union of two dicts of sets
UnionDict(d, other) ==
    [p \in DOMAIN d \cup DOMAIN other |->
        (IF p \in DOMAIN d THEN d[p] ELSE {})
        \cup (IF p \in DOMAIN other THEN other[p] ELSE {})]

\* main: input_files_variables.update(input_file_variables)
merge_index(d, other) == DictUpdate(d, other)

\* an exception nobody catches leaves the loop and main
propagate_swallowed(exc, here) == here

propagate(exc, here) == IF exc = "none" THEN here ELSE "failed"

(***************************************************************************)
(* main.py: the pure parts                                                 *)
(***************************************************************************)
\* the SKOS.altLabel literal create_triples of main.py adds: the whole cell
main_altlabel_calls(labels) == << Lit(labels) >>

\* create_triples of main.py: InputFile, and one altLabel for the whole cell
main_added_triples(file_relative_path, file_description, variable_name, variable_alternative_labels, variable_description, variable_value_example, variable_type) ==
    LET file_uri == ODTP \o quote(file_relative_path)
        variable_uri == ODTP \o variable_name \o <<"Shape">>
    IN  { Triple(file_uri, "rdf:type", Uri(<<"sh:NodeShape">>)),
          Triple(file_uri, "rdfs:subClassOf", Uri(ODTP \o <<"InputFile">>)),
          Triple(file_uri, "sh:targetNode", Uri(file_uri)),
          Triple(file_uri, "sh:description", LitString(file_description)),
          Triple(variable_uri, "rdf:type", Uri(<<"sh:PropertyShape">>)),
          Triple(variable_uri, "sh:datatype", Uri(variable_type)),
          Triple(variable_uri, "sh:description", LitString(variable_description)),
          Triple(variable_uri, "sh:name", Lit(variable_name)),
          Triple(variable_uri, "sh:path", Uri(ODTP \o variable_name)),
          Triple(variable_uri, "skos:example", Lit(variable_value_example)) }
        \cup
        { Triple(variable_uri, "skos:altLabel", label) :
            label \in Range(main_altlabel_calls(variable_alternative_labels)) }

\* one iteration of the loop over the rows in read_and_process_file
main_row(row, fv, graph) ==
    IF ~(CsvKeys \subseteq DOMAIN row)
    THEN Outcome("KeyError", fv, graph, {}, << >>)
    ELSE LET new == main_added_triples(row.file_relative_path,
                        row.file_description, row.variable_name,
                        row.variable_alternative_labels, row.variable_description,
                        row.variable_value_example, row.variable_type)
         IN  Outcome("none",
                 add_variable(ensure_key(fv, row.file_relative_path),
                              row.file_relative_path, row.variable_name),
                 graph \cup new, new,
                 main_altlabel_calls(row.variable_alternative_labels))

\* and_builder of main.py (the same text as that of shacl-maker.py)
main_and_builder(variables) ==
    LET keys == SetToSeq(DOMAIN variables)
    IN  [i \in 1..Len(keys) |->
            [subject |-> ODTP \o keys[i], items |-> and_items(variables[keys[i]])]]

\* Graph.parse(format="turtle") of the assembled text: an IRI between < and >
\* holds none of these characters
IllegalIriChars == {" ", "<", ">", "{", "}", "|"}
valid_iri(s) == \A i \in 1..Len(s) : s[i] \notin IllegalIriChars
parses(doc) ==
    \A i \in 1..Len(doc.ands) :
        /\ valid_iri(doc.ands[i].subject)
        /\ \A j \in 1..Len(doc.ands[i].items) : valid_iri(doc.ands[i].items[j])

\* files
File(graph, ands) == [exists |-> TRUE, graph |-> graph, ands |-> ands]
NoFile == [exists |-> FALSE, graph |-> {}, ands |-> << >>]
OutputFiles == {"input.ttl", "output.ttl", "shapeswithoutand.ttl", "finalShapes.ttl"}

(***************************************************************************)
(* State                                                                   *)
(***************************************************************************)
VARIABLES
    program,                 \* "shacl-maker" or "main": the module the process runs
    pc,                      \* where main is
    runs,                    \* calls of main so far
    listed,                  \* directory entries os.listdir has yielded in this run
    nsources,                \* directory entries and files read by the process
    nevents,                 \* rows and file entries read by the process
    input_shapes_graph, output_shapes_graph,   \* module level, shacl-maker.py
    shapes_graph,                              \* module level, main.py
    input_files_variables, output_files_variables,   \* locals of main
    files_variables,         \* local of convert_to_variables / read_and_process_file
    source,                  \* the file being read and the filetype argument
    fs,                      \* the output files
    raised,                  \* the exception that ended the run, or "none"
    diagnostics,             \* "Unsupported file" lines printed in this run
    \* what the run has done so far, kept to state the properties
    wrote,                   \* files written by this run
    emitted,                 \* per role, the triples create_triples added in this run
    declared,                \* per role, path -> variables declared by any source of this run
    processed,               \* per role, the records create_triples was called with in this run
    seen,                    \* the records of the current source read so far
    nrows,                   \* how many records of the current source were processed
    nodup_files_variables,   \* the current source processed without its repeated records
    nodup_graph,
    malformed_read,          \* a source of this run could not be read
    last_row,                \* the CSV row processed last (a set of at most one row)
    added_labels             \* the SKOS.altLabel literals the last row or entry
                             \* passed to add, one per call

vars == <<program, pc, runs, listed, nsources, nevents, input_shapes_graph,
          output_shapes_graph, shapes_graph, input_files_variables,
          output_files_variables, files_variables, source, fs, raised,
          diagnostics, wrote, emitted, declared, processed, seen, nrows,
          nodup_files_variables, nodup_graph, malformed_read, last_row, added_labels>>

Roles == {"input", "output", "single"}
DirectoryEntries == {"input.csv", "output.csv", "odtp.yml", "notes.txt"}
Extensions == {".csv", ".yml", ".txt"}

\* shapes_graph of convert_to_variables: chosen by filetype
GraphOf(filetype) ==
    IF filetype = "input" THEN input_shapes_graph ELSE output_shapes_graph

RoleOfFile(name) ==
    IF name = "input.ttl" THEN "input"
    ELSE IF name = "output.ttl" THEN "output" ELSE "single"

\* the arguments of one create_triples call that describe the variable
Record(path, variable, labels) ==
    [file_relative_path |-> path,
     variable_name |-> variable.variable_name,
     variable_type |-> variable.variable_type,
     variable_description |-> variable.variable_description,
     variable_value_example |-> variable.variable_value_example,
     labels |-> labels]

\* the variables of a file entry the loop reaches before one lacks a key
read_variables(vlist) ==
    { vlist[i] : i \in { k \in 1..Len(vlist) :
                          \A j \in 1..k : VariableKeys \subseteq DOMAIN vlist[j] } }

Init ==
    /\ program \in {"shacl-maker", "main"}
    /\ pc = "idle"
    /\ runs = 0
    /\ listed = {}
    /\ nsources = 0
    /\ nevents = 0
    /\ input_shapes_graph = {}
    /\ output_shapes_graph = {}
    /\ shapes_graph = {}
    /\ input_files_variables = EmptyDict
    /\ output_files_variables = EmptyDict
    /\ files_variables = EmptyDict
    /\ source = [name |-> "", filetype |-> ""]
    /\ fs = [f \in OutputFiles |-> NoFile]
    /\ raised = "none"
    /\ diagnostics = 0
    /\ wrote = {}
    /\ emitted = [r \in Roles |-> {}]
    /\ declared = [r \in Roles |-> EmptyDict]
    /\ processed = [r \in Roles |-> {}]
    /\ seen = {}
    /\ nrows = 0
    /\ nodup_files_variables = EmptyDict
    /\ nodup_graph = {}
    /\ malformed_read = FALSE
    /\ last_row = {}
    /\ added_labels = << >>

\* what every call of main starts with
EnterMain ==
    /\ pc \in {"idle", "done", "failed"}
    /\ runs < MaxRuns
    /\ runs' = runs + 1
    /\ listed' = {}
    /\ diagnostics' = 0
    /\ wrote' = {}
    /\ emitted' = [r \in Roles |-> {}]
    /\ declared' = [r \in Roles |-> EmptyDict]
    /\ processed' = [r \in Roles |-> {}]
    /\ last_row' = {}
    /\ added_labels' = << >>
    /\ UNCHANGED <<program, nevents, input_shapes_graph, output_shapes_graph,
                   shapes_graph, fs>>

\* convert_to_variables(file_path, filetype) up to its loop
OpenSource(name, filetype, graph) ==
    /\ source' = [name |-> name, filetype |-> filetype]
    /\ files_variables' = EmptyDict
    /\ seen' = {}
    /\ nrows' = 0
    /\ nodup_files_variables' = EmptyDict
    /\ nodup_graph' = graph

\* the effect of one loop iteration with outcome out on the graph of role
Absorb(role, out, here) ==
    /\ input_shapes_graph' = IF role = "input" THEN out.graph ELSE input_shapes_graph
    /\ output_shapes_graph' = IF role = "output" THEN out.graph ELSE output_shapes_graph
    /\ shapes_graph' = IF role = "single" THEN out.graph ELSE shapes_graph
    /\ files_variables' = out.files_variables
    /\ raised' = out.raised
    /\ pc' = propagate(out.raised, here)
    /\ nevents' = nevents + 1
    /\ emitted' = [emitted EXCEPT ![role] = @ \cup out.added]
    /\ declared' = [declared EXCEPT ![role] = UnionDict(@, out.files_variables)]
    /\ added_labels' = out.labels

(***************************************************************************)
(* shacl-maker.py: main(input_folder)                                      *)
(***************************************************************************)
StartMain ==
    /\ program = "shacl-maker"
    /\ EnterMain
    /\ pc' = "listdir"
    /\ input_files_variables' = EmptyDict
    /\ output_files_variables' = EmptyDict
    /\ raised' = "none"
    /\ malformed_read' = FALSE
    /\ UNCHANGED <<nsources, files_variables, source, seen, nrows,
                   nodup_files_variables, nodup_graph>>

\* the next filename of os.listdir(input_folder)
ListFile ==
    /\ pc = "listdir"
    /\ nsources < MaxSources
    /\ nsources' = nsources + 1
    /\ \E filename \in DirectoryEntries \ listed :
        /\ listed' = listed \cup {filename}
        /\ IF filename = "input.csv"
           THEN /\ OpenSource(filename, "input", input_shapes_graph)
                /\ pc' = "csv"
                /\ UNCHANGED diagnostics
           ELSE IF filename = "output.csv"
           THEN /\ OpenSource(filename, "output", output_shapes_graph)
                /\ pc' = "csv"
                /\ UNCHANGED diagnostics
           ELSE IF filename = "odtp.yml"
           THEN /\ OpenSource(filename, "input", input_shapes_graph)
                /\ pc' = "yml"
                /\ UNCHANGED diagnostics
           ELSE /\ diagnostics' = diagnostics + 1
                /\ UNCHANGED <<pc, source, files_variables, seen, nrows,
                               nodup_files_variables, nodup_graph>>
    /\ UNCHANGED <<program, runs, nevents, input_shapes_graph, output_shapes_graph,
                   shapes_graph, input_files_variables, output_files_variables,
                   fs, raised, wrote, emitted, declared, processed,
                   malformed_read,
                   last_row, added_labels>>

\* the variables of a file entry that repeat no record read before
RECURSIVE without_repeats(_, _, _, _)
without_repeats(vlist, path, desc, before) ==
    IF vlist = << >> THEN << >>
    ELSE IF <<path, desc, Head(vlist)>> \in before
    THEN without_repeats(Tail(vlist), path, desc, before)
    ELSE <<Head(vlist)>> \o without_repeats(Tail(vlist), path, desc,
                                           before \cup {<<path, desc, Head(vlist)>>})

\* one row of input.csv or output.csv
ReadCsvRow ==
    /\ pc = "csv"
    /\ nevents < MaxEvents
    /\ \E row \in CsvRows \cup BadCsvRows :
        LET out == csv_row(row, files_variables, GraphOf(source.filetype))
            nodup == IF row \in seen
                     THEN Outcome("none", nodup_files_variables, nodup_graph, {}, << >>)
                     ELSE csv_row(row, nodup_files_variables, nodup_graph)
        IN  /\ Absorb(source.filetype, out, "csv")
            /\ processed' = IF row \in BadCsvRows THEN processed
                             ELSE [processed EXCEPT ![source.filetype] = @ \cup
                                     { Record(row.file_relative_path, row,
                                         csv_labels(row.variable_alternative_labels)) }]
            /\ seen' = seen \cup {row}
            /\ nrows' = nrows + 1
            /\ nodup_files_variables' = nodup.files_variables
            /\ nodup_graph' = nodup.graph
            /\ malformed_read' = (malformed_read \/ row \in BadCsvRows)
            /\ last_row' = IF row \in CsvRows THEN {row} ELSE {}
    /\ UNCHANGED <<program, runs, listed, nsources, input_files_variables,
                   output_files_variables, source, fs, diagnostics, wrote>>

\* one file entry of the data-input or data-output section of a .yml file
ReadYmlEntry ==
    /\ pc = "yml"
    /\ nevents < MaxEvents
    /\ \E entry \in YmlEntries \cup BadYmlEntries :
        LET out == yml_entry(entry, files_variables, GraphOf(source.filetype))
            vs == entry_variables(entry)
            nodup == IF entry \in BadYmlEntries
                     THEN Outcome("KeyError", nodup_files_variables, nodup_graph, {}, << >>)
                     ELSE yml_entry(
                              [file_relative_path |-> entry.file_relative_path,
                               file_description |-> entry.file_description,
                               variables |-> without_repeats(vs,
                                   entry.file_relative_path,
                                   entry.file_description, seen)],
                              nodup_files_variables, nodup_graph)
        IN  /\ Absorb(source.filetype, out, "yml")
            /\ processed' = IF entry \in BadYmlEntries THEN processed
                             ELSE [processed EXCEPT ![source.filetype] = @ \cup
                                     { Record(entry.file_relative_path, v,
                                              v.variable_alternative_labels) :
                                       v \in read_variables(vs) }]
            /\ seen' = IF entry \in BadYmlEntries THEN seen
                       ELSE seen \cup { <<entry.file_relative_path,
                                          entry.file_description, vs[i]>> :
                                        i \in 1..Len(vs) }
            /\ nrows' = nrows + Len(vs)
            /\ nodup_files_variables' = nodup.files_variables
            /\ nodup_graph' = nodup.graph
            /\ malformed_read' = (\/ malformed_read
                                  \/ entry \in BadYmlEntries
                                  \/ \E i \in 1..Len(vs) : vs[i] \in BadYmlVariables)
            /\ last_row' = {}
    /\ UNCHANGED <<program, runs, listed, nsources, input_files_variables,
                   output_files_variables, source, fs, diagnostics, wrote>>

\* convert_to_variables returns and main merges what it returned; the locals
\* of the call are gone
EndOfSource ==
    /\ pc \in {"csv", "yml"}
    /\ IF source.filetype = "input"
       THEN /\ input_files_variables' =
                   merge_index(input_files_variables, files_variables)
            /\ UNCHANGED output_files_variables
       ELSE /\ output_files_variables' =
                   merge_index(output_files_variables, files_variables)
            /\ UNCHANGED input_files_variables
    /\ IF pc = "yml" /\ source.filetype = "input"
       THEN /\ OpenSource(source.name, "output", output_shapes_graph)
            /\ pc' = "yml"
       ELSE /\ OpenSource("", "", {})
            /\ pc' = "listdir"
    /\ last_row' = {}
    /\ added_labels' = << >>
    /\ UNCHANGED <<program, runs, listed, nsources, nevents, input_shapes_graph,
                   output_shapes_graph, shapes_graph, fs, raised, diagnostics,
                   wrote, emitted, declared, processed, malformed_read>>

\* serialize(destination=name) and the appended and_builder lines
write_document(files, name, graph, variables) ==
    [files EXCEPT ![name] = File(graph, and_builder(variables))]

\* os.listdir is exhausted; if input_files_variables: ... input.ttl
WriteInput ==
    /\ pc = "listdir"
    /\ pc' = "write_output"
    /\ IF input_files_variables # EmptyDict
       THEN /\ fs' = write_document(fs, "input.ttl", input_shapes_graph,
                                    input_files_variables)
            /\ wrote' = wrote \cup {"input.ttl"}
       ELSE UNCHANGED <<fs, wrote>>
    /\ UNCHANGED <<program, runs, listed, nsources, nevents, input_shapes_graph,
                   output_shapes_graph, shapes_graph, input_files_variables,
                   output_files_variables, files_variables, source, raised,
                   diagnostics, emitted, declared, processed, seen,
                   nrows,
                   nodup_files_variables, nodup_graph, malformed_read,
                   last_row, added_labels>>

\* if output_files_variables: ... output.ttl
WriteOutput ==
    /\ pc = "write_output"
    /\ pc' = "done"
    /\ IF output_files_variables # EmptyDict
       THEN /\ fs' = write_document(fs, "output.ttl", output_shapes_graph,
                                    output_files_variables)
            /\ wrote' = wrote \cup {"output.ttl"}
       ELSE UNCHANGED <<fs, wrote>>
    /\ UNCHANGED <<program, runs, listed, nsources, nevents, input_shapes_graph,
                   output_shapes_graph, shapes_graph, input_files_variables,
                   output_files_variables, files_variables, source, raised,
                   diagnostics, emitted, declared, processed, seen,
                   nrows,
                   nodup_files_variables, nodup_graph, malformed_read,
                   last_row, added_labels>>

(***************************************************************************)
(* main.py: main(input_filename)                                           *)
(***************************************************************************)
\* read_and_process_file up to its loop: the extension decides
MainStart ==
    /\ program = "main"
    /\ EnterMain
    /\ nsources < MaxSources
    /\ nsources' = nsources + 1
    /\ \E file_extension \in Extensions :
        /\ OpenSource(file_extension, "single", shapes_graph)
        /\ IF file_extension = ".csv" THEN pc' = "rows"
           ELSE IF file_extension = ".yml" THEN pc' = "keys"
           ELSE pc' = "failed"
        /\ raised' = IF file_extension \in {".csv", ".yml"} THEN "none"
                     ELSE "ValueError"
        /\ malformed_read' = (file_extension \notin {".csv", ".yml"})
    /\ UNCHANGED <<input_files_variables, output_files_variables>>

\* one row of the CSV file
MainReadRow ==
    /\ pc = "rows"
    /\ nevents < MaxEvents
    /\ \E row \in CsvRows \cup BadCsvRows :
        LET out == main_row(row, files_variables, shapes_graph)
            nodup == IF row \in seen
                     THEN Outcome("none", nodup_files_variables, nodup_graph, {}, << >>)
                     ELSE main_row(row, nodup_files_variables, nodup_graph)
        IN  /\ Absorb("single", out, "rows")
            /\ processed' = IF row \in BadCsvRows THEN processed
                             ELSE [processed EXCEPT !["single"] = @ \cup
                                     { Record(row.file_relative_path, row,
                                         [isList |-> FALSE, list |-> << >>,
                                          str |-> row.variable_alternative_labels]) }]
            /\ seen' = seen \cup {row}
            /\ nrows' = nrows + 1
            /\ nodup_files_variables' = nodup.files_variables
            /\ nodup_graph' = nodup.graph
            /\ malformed_read' = (malformed_read \/ row \in BadCsvRows)
            /\ last_row' = IF row \in CsvRows THEN {row} ELSE {}
    /\ UNCHANGED <<program, runs, listed, nsources, input_files_variables,
                   output_files_variables, source, fs, diagnostics, wrote>>

\* the loop over a hierarchical document yields its top-level keys, which are
\* strings: row["file_relative_path"] raises TypeError
MainReadKey ==
    /\ pc = "keys"
    /\ nevents < MaxEvents
    /\ \E key \in {"data-input", "data-output"} :
        /\ pc' = propagate("TypeError", "keys")
        /\ raised' = "TypeError"
        /\ malformed_read' = TRUE
        /\ nevents' = nevents + 1
    /\ UNCHANGED <<program, runs, listed, nsources, input_shapes_graph, output_shapes_graph,
                   shapes_graph, input_files_variables, output_files_variables,
                   files_variables, source, fs, diagnostics, wrote, emitted,
                   declared, processed, seen, nrows, nodup_files_variables, nodup_graph,
                   last_row, added_labels>>

\* shapes_graph.serialize(shapeswithoutand.ttl) and the appended lines
MainAssemble ==
    /\ pc \in {"rows", "keys"}
    /\ pc' = "parse"
    /\ fs' = [fs EXCEPT !["shapeswithoutand.ttl"] =
                 File(shapes_graph, main_and_builder(files_variables))]
    /\ wrote' = wrote \cup {"shapeswithoutand.ttl"}
    /\ UNCHANGED <<program, runs, listed, nsources, nevents, input_shapes_graph,
                   output_shapes_graph, shapes_graph, input_files_variables,
                   output_files_variables, files_variables, source, raised,
                   diagnostics, emitted, declared, processed, seen,
                   nrows,
                   nodup_files_variables, nodup_graph, malformed_read,
                   last_row, added_labels>>

\* final_graph.parse, final_graph.serialize(finalShapes.ttl), os.remove
MainParse ==
    /\ pc = "parse"
    /\ IF parses(fs["shapeswithoutand.ttl"])
       THEN /\ fs' = [fs EXCEPT !["finalShapes.ttl"] = fs["shapeswithoutand.ttl"],
                                !["shapeswithoutand.ttl"] = NoFile]
            /\ wrote' = wrote \cup {"finalShapes.ttl"}
            /\ pc' = "done"
            /\ UNCHANGED raised
       ELSE /\ pc' = "failed"
            /\ raised' = "ParseError"
            /\ UNCHANGED <<fs, wrote>>
    /\ UNCHANGED <<program, runs, listed, nsources, nevents, input_shapes_graph,
                   output_shapes_graph, shapes_graph, input_files_variables,
                   output_files_variables, files_variables, source,
                   diagnostics, emitted, declared, processed, seen,
                   nrows,
                   nodup_files_variables, nodup_graph, malformed_read,
                   last_row, added_labels>>

Next ==
    \/ StartMain
    \/ ListFile
    \/ ReadCsvRow
    \/ ReadYmlEntry
    \/ EndOfSource
    \/ WriteInput
    \/ WriteOutput
    \/ MainStart
    \/ MainReadRow
    \/ MainReadKey
    \/ MainAssemble
    \/ MainParse

Spec == Init /\ [][Next]_vars

(***************************************************************************)
(* Properties                                                              *)
(***************************************************************************)
\* the index the and_builder call that wrote file name was given
IndexOf(name) ==
    IF name = "input.ttl" THEN input_files_variables
    ELSE IF name = "output.ttl" THEN output_files_variables
    ELSE files_variables

\* the graph the loop of the current source adds to
CurrentGraph ==
    IF program = "main" THEN shapes_graph ELSE GraphOf(source.filetype)

Reading == pc \in {"csv", "yml", "rows"}

\* the documents a run leaves behind
FinalDocuments == {"input.ttl", "output.ttl", "finalShapes.ttl"}

\* C1: a document written by a run holds only statements that create_triples
\* added in that same run, none left in the collection by an earlier run.
C1_FreshCollections ==
    \A name \in wrote \cap FinalDocuments : fs[name].graph \subseteq emitted[RoleOfFile(name)]

\* C2: once the last source of a batch run is consumed, the index of each role
\* maps every path to the union of the variables any source declared for it.
C2_MergeIsUnion ==
    pc \in {"write_output", "done"} =>
        /\ input_files_variables = declared["input"]
        /\ output_files_variables = declared["output"]

C4_ZeroVariablesPath ==
    \A name \in wrote \cap {"input.ttl", "output.ttl"} :
        /\ \A p \in DOMAIN IndexOf(name) :
              IndexOf(name)[p] = {} =>
                /\ Triple(ODTP \o quote(p), "rdf:type", Uri(<<"sh:NodeShape">>))
                       \in fs[name].graph
                /\ \A i \in 1..Len(fs[name].ands) :
                       fs[name].ands[i].subject # ODTP \o p
        /\ \A i \in 1..Len(fs[name].ands) : fs[name].ands[i].items # << >>

\* C5: in a written document every path of the index has a conjunction
\* constraint whose subject is the file-shape identifier of that path, the
\* base namespace followed by the percent-encoded path.
C5_ConjunctionSubjectIsFileShape ==
    \A name \in wrote \cap FinalDocuments : \A p \in DOMAIN IndexOf(name) :
        \E i \in 1..Len(fs[name].ands) :
            fs[name].ands[i].subject = ODTP \o quote(p)

\* C6: a final output document exists only if its text, the serialized
\* collection followed by the conjunction strings, parses.
C6_MalformedNeverWritten ==
    \A name \in FinalDocuments : fs[name].exists => parses(fs[name])

\* C7: a finished batch run has written the document of a role exactly when a
\* record of that role was processed in the run.
C7_DocumentIffRecords ==
    (program = "shacl-maker" /\ pc = "done") =>
        /\ ("input.ttl" \in wrote) <=> (emitted["input"] # {})
        /\ ("output.ttl" \in wrote) <=> (emitted["output"] # {})

\* C8: when a source cannot be read the run has failed and has written no
\* file, and a failed run reads no further record or source and writes nothing.
C8_ReadFailureIsTerminal ==
    /\ [](malformed_read => (pc = "failed" /\ raised # "none" /\ wrote = {}))
    /\ [][pc = "failed" =>
            \/ runs' = runs + 1
            \/ UNCHANGED <<nevents, listed, fs, wrote, input_shapes_graph,
                           output_shapes_graph, shapes_graph, files_variables,
                           input_files_variables, output_files_variables>>]_vars

\* a later record of a source is malformed, after one was processed, while
\* a document of an earlier run exists
C8_Witness ==
    /\ malformed_read /\ pc = "failed" /\ raised = "KeyError"
    /\ \E r \in Roles : emitted[r] # {}

\* C9: the alternate-label statements emitted for the CSV row processed last
\* are the comma-separated substrings of its variable_alternative_labels cell,
\* one statement per substring, none for the empty cell.
C9_AltLabelPerSubstring ==
    \A row \in last_row :
        LET cell == row.variable_alternative_labels
            parts == IF cell = << >> THEN << >> ELSE split(cell)
        IN  added_labels = [i \in 1..Len(parts) |-> Lit(parts[i])]

\* C10: a run has written a file only after its last record was read, and the
\* conjunction strings of a written file are one per path of the index, each
\* listing every variable of the path exactly once.
C10_ConjunctionsAfterAllRecords ==
    \A name \in wrote :
        LET index == IndexOf(name)
            ands == fs[name].ands
        IN  /\ pc \in {"write_output", "done", "parse", "failed"}
            /\ pc = "failed" => raised = "ParseError"
            /\ fs[name].exists =>
                /\ Len(ands) = Cardinality(DOMAIN index)
                /\ \A p \in DOMAIN index :
                     \E i \in 1..Len(ands) :
                        /\ ands[i].subject = ODTP \o p
                        /\ \A j \in 1..Len(ands) :
                              ands[j].subject = ODTP \o p => j = i
                        /\ Len(ands[i].items) = Cardinality(index[p])
                        /\ Range(ands[i].items) = { ODTP \o v : v \in index[p] }

\* a written file has a conjunction string over two variables
C10_Witness ==
    \E name \in wrote :
        /\ fs[name].exists
        /\ \E p \in DOMAIN IndexOf(name) : Cardinality(IndexOf(name)[p]) = 2

\* the module-level graph the records of a role are added to
RoleGraph(r) ==
    IF r = "input" THEN input_shapes_graph
    ELSE IF r = "output" THEN output_shapes_graph ELSE shapes_graph

\* the alternate labels create_triples was given for a record
LabelsOf(rec) ==
    IF rec.labels.isList THEN Range(rec.labels.list) ELSE {rec.labels.str}

\* the datatype, description, example and alternate-label statements of one
\* record, on the property-shape named shape
RecordStatements(shape, rec) ==
    { Triple(shape, "sh:datatype", Uri(rec.variable_type)),
      Triple(shape, "sh:description", LitString(rec.variable_description)),
      Triple(shape, "skos:example", Lit(rec.variable_value_example)) }
    \cup { Triple(shape, "skos:altLabel", Lit(l)) : l \in LabelsOf(rec) }

ShapePredicates == {"sh:datatype", "sh:description", "skos:example", "skos:altLabel"}

\* C11: the records of one role that share a variable_name share one
\* property-shape, named by the variable_name alone whatever their file
\* paths, and the datatype, description, example and alternate-label
\* statements of that shape are the union of those of these records.
C11_OneShapePerVariableName ==
    \A r \in Roles :
        /\ Cardinality({ t.s : t \in { u \in emitted[r] :
                            u.p = "rdf:type" /\ u.o = Uri(<<"sh:PropertyShape">>) } })
              = Cardinality({ rec.variable_name : rec \in processed[r] })
        /\ \A n \in VariableNames :
              LET shape == ODTP \o n \o <<"Shape">>
                  recs == { rec \in processed[r] : rec.variable_name = n }
                  union == UNION { RecordStatements(shape, rec) : rec \in recs }
              IN  /\ recs # {} =>
                        { t.s : t \in { u \in emitted[r] :
                              u.p = "sh:name" /\ u.o = Lit(n) } } = {shape}
                  /\ { t \in emitted[r] : t.s = shape /\ t.p \in ShapePredicates }
                        = union
                  /\ union \subseteq RoleGraph(r)

\* two records of a role name the same variable in different files, and the
\* shape of that variable holds two datatypes
C11_Witness ==
    \E r \in Roles : \E rec1, rec2 \in processed[r] :
        /\ rec1.variable_name = rec2.variable_name
        /\ rec1.file_relative_path # rec2.file_relative_path
        /\ Cardinality({ t.o : t \in { u \in RoleGraph(r) :
                /\ u.s = ODTP \o rec1.variable_name \o <<"Shape">>
                /\ u.p = "sh:datatype" } }) = 2

====
